---- MODULE Spec2Model ----
(***************************************************************************)
(* Model of librustc_incremental/persist/dirty_clean.rs: the checks of the *)
(* #[rustc_dirty] / #[rustc_clean] directives against the dependency       *)
(* graph's fingerprints, of the #[rustc_metadata_dirty] /                  *)
(* #[rustc_metadata_clean] directives against the metadata hashes, and the *)
(* search for directives that no check consulted.                          *)
(*                                                                         *)
(* A behaviour is a sequence of invocations of one of the two entry points *)
(* on one crate, one configuration and one pair of snapshots.  A string is *)
(* a sequence of tokens: a label name is one token, "," and " " are the    *)
(* characters split(',') and trim() look at.                               *)
(***************************************************************************)
EXTENDS Naturals, Sequences, FiniteSets

\* ------------------------------------------------------------ bounds
\* Directives in the crate.
MaxDirectives == 2
\* Invocations of the entry point on the same inputs.
MaxRuns == 2

\* ------------------------------------------------------- constants
LABEL == "label"
CFG == "cfg"
ATTR_DIRTY == "rustc_dirty"
ATTR_CLEAN == "rustc_clean"
ATTR_DIRTY_METADATA == "rustc_metadata_dirty"
ATTR_CLEAN_METADATA == "rustc_metadata_clean"

\* Option<T>: None, or Some(x).
None == <<>>
Some(x) == <<x>>

\* The argument of a directive that is not written, and the one written
\* without a value; neither is a string.
Absent == <<"(absent)">>
NoValue == <<"(no value)">>

\* DepNode::has_label_string: the names of the dep-node kinds.
LabelStrings == {<<"Hir">>, <<"TypeckTables">>}
has_label_string(label) == label \in LabelStrings

\* ------------------------------------------------------ the crate
\* The two entry points.
Passes == {"annotations", "metadata"}

\* The declarations directives are attached to: a tuple struct (an item), one
\* of its fields, an item of an impl, and an expression in that item's body,
\* in the order walk_crate meets their attributes.  "ctor" is the struct's
\* constructor: it has a definition of its own and no attributes of its own.
Owners == <<"struct_field", "item", "impl_item", "expr">>
Defs == {"struct_field", "item", "ctor", "impl_item", "expr"}

\* The values the `cfg` and `label` arguments of a directive are drawn from.
Revisions == {"rev1", "rev2"}
CfgArgs == {Absent, NoValue} \cup {<<r>> : r \in Revisions}
LabelValues ==
    { <<"Hir">>,
      <<"Hir", ",", " ", "TypeckTables">>,
      <<"Hir", ",", "Hir">>,
      <<"Hir", ",", "Bogus">> }
LabelArgs == {Absent, NoValue} \cup LabelValues

FingerprintNames == {ATTR_DIRTY, ATTR_CLEAN}
MetadataNames == {ATTR_DIRTY_METADATA, ATTR_CLEAN_METADATA}
NamesOf(p) == IF p = "annotations" THEN FingerprintNames ELSE MetadataNames

\* The session checked is that of revision "rev2".
ActiveConfig == {<<"rev2">>}

\* A directive: the declaration it is written on, its name, and the first
\* `cfg` and the first `label` item of its argument list (the only ones the
\* code reads).  Arguments that no code path reads are not varied: the label
\* of a metadata directive and of a directive whose cfg is malformed, and,
\* but for one well-formed and one malformed value, the label of a directive
\* whose cfg is not in the active configuration.
Varied(d) ==
    /\ d.name \in MetadataNames => d.label = Absent
    /\ d.cfg \in {Absent, NoValue} => d.label = Absent
    /\ (d.name \in FingerprintNames /\ d.cfg \in CfgArgs \ ({Absent, NoValue} \cup ActiveConfig))
          => d.label \in {<<"Hir">>, <<"Hir", ",", "Bogus">>}

\* The crates an invocation of pass p is checked on hold directives of the
\* pass's kinds on three declarations (two that its traversal reaches and one
\* that it does not), and possibly one directive of the other pass.
OwnersOf(p) ==
    IF p = "annotations" THEN {"struct_field", "item", "impl_item"}
    ELSE {"struct_field", "item", "expr"}

OtherDirective(p) ==
    IF p = "annotations"
    THEN [owner |-> "item", name |-> ATTR_CLEAN_METADATA, cfg |-> <<"rev2">>, label |-> Absent]
    ELSE [owner |-> "item", name |-> ATTR_DIRTY, cfg |-> <<"rev2">>, label |-> <<"Hir">>]

DirectivesOf(p) ==
    { d \in [owner : OwnersOf(p), name : NamesOf(p), cfg : CfgArgs, label : LabelArgs] :
        Varied(d) }
    \cup {OtherDirective(p)}

OwnerRank(o) == CHOOSE i \in 1..Len(Owners) : Owners[i] = o

RECURSIVE CratesOfLen(_, _)
CratesOfLen(p, n) ==
    IF n = 0 THEN {<<>>}
    ELSE { Append(k, d) : k \in CratesOfLen(p, n - 1), d \in DirectivesOf(p) }

\* The directives of a crate in the order walk_crate meets them; a
\* directive's place in the sequence is its AttrId.
Sorted(k) ==
    \A i \in 1..Len(k) - 1 : OwnerRank(k[i].owner) <= OwnerRank(k[i + 1].owner)

Crates(p) ==
    { k \in UNION { CratesOfLen(p, n) : n \in 0..MaxDirectives } : Sorted(k) }

\* tcx.get_attrs(def_id): the AttrIds of the directives of a definition, in
\* source order.  The constructor of a tuple struct has the attributes of the
\* struct.
get_attrs(k, def) ==
    LET o == IF def = "ctor" THEN "item" ELSE def
        OnDef(i) == k[i].owner = o
    IN  SelectSeq([i \in 1..Len(k) |-> i], OnDef)

\* Crate::visit_all_item_likes: the items, the trait items, the impl items.
ItemLikes == <<"item", "impl_item">>
\* The definitions DirtyCleanMetadataVisitor calls check_item on, in
\* walk_crate's order: an item, then, within it, the variant data that the HIR
\* map knows (a tuple struct's constructor) and the fields.
MetadataVisits == <<"item", "ctor", "struct_field", "impl_item">>
VisitsOf(p) == IF p = "annotations" THEN ItemLikes ELSE MetadataVisits
Reached(p) == { VisitsOf(p)[i] : i \in 1..Len(VisitsOf(p)) }

\* ------------------------------------------------------ snapshots
Fingerprints == {"H1", "H2"}
OptionFingerprints == {None} \cup {Some(h) : h \in Fingerprints}

\* ---------------------------------------------------- diagnostics
\* A diagnostic: its severity, its message, the span it is reported at (a
\* declaration's or a directive's) and, for an assertion, the dep-node or the
\* definition it names.  `attr` is bookkeeping of the model: the directive
\* that was being processed.
ItemSpan(def) == [item |-> def, attr |-> 0]
AttrSpan(id) == [item |-> "-", attr |-> id]
NoSubject == [kind |-> "-", def |-> "-"]
Error(msg, span, subject, id) ==
    [sev |-> "error", msg |-> msg, span |-> span, subject |-> subject, attr |-> id]
Fatal(msg, id) ==
    [sev |-> "fatal", msg |-> msg, span |-> AttrSpan(id), subject |-> NoSubject,
     attr |-> id]

\* --------------------------------------------------------- strings
\* str::split(','): the pieces between the commas, empty ones included.
RECURSIVE split(_)
split(value) ==
    IF \E i \in 1..Len(value) : value[i] = ","
    THEN LET i == CHOOSE j \in 1..Len(value) :
                      value[j] = "," /\ \A h \in 1..j - 1 : value[h] # ","
         IN  <<SubSeq(value, 1, i - 1)>> \o split(SubSeq(value, i + 1, Len(value)))
    ELSE <<value>>

\* str::trim(): without the leading and the trailing white space.
RECURSIVE trim(_)
trim(label) ==
    IF label # <<>> /\ Head(label) = " " THEN trim(Tail(label))
    ELSE IF label # <<>> /\ label[Len(label)] = " "
         THEN trim(SubSeq(label, 1, Len(label) - 1))
    ELSE label

\* ------------------------------------------- the directive's arguments
\* expect_associated_value: the value of a meta item, fatal without one.
expect_associated_value(item, id) ==
    IF item # NoValue
    THEN [fatal |-> FALSE, value |-> item]
    ELSE [fatal |-> TRUE, diag |-> Fatal("associated value expected", id)]

\* A faulty check_config, against which C3 is tested: any cfg with a value is
\* taken to be active.
check_config_any_value(config, attr, id) ==
    IF attr.cfg # Absent
    THEN LET value == expect_associated_value(attr.cfg, id)
         IN  IF value.fatal THEN value ELSE [fatal |-> FALSE, value |-> TRUE]
    ELSE [fatal |-> TRUE, diag |-> Fatal("no cfg attribute", id)]

\* check_config: whether the value of the directive's `cfg` item is in the
\* session's configuration; fatal without a `cfg` item.
check_config(config, attr, id) ==
    IF attr.cfg # Absent
    THEN LET value == expect_associated_value(attr.cfg, id)
         IN  IF value.fatal THEN value
             ELSE [fatal |-> FALSE, value |-> value.value \in config]
    ELSE [fatal |-> TRUE, diag |-> Fatal("no cfg attribute", id)]

\* resolve_labels: the set of the labels of a label string; fatal at the first
\* piece that is no dep-node label or that came before.
RECURSIVE resolve_from(_, _, _)
resolve_from(pieces, out, id) ==
    IF pieces = <<>> THEN [fatal |-> FALSE, value |-> out]
    ELSE LET label == trim(Head(pieces))
         IN  IF has_label_string(label)
             THEN IF label \in out
                  THEN [fatal |-> TRUE, diag |-> Fatal("dep-node label is repeated", id)]
                  ELSE resolve_from(Tail(pieces), out \cup {label}, id)
             ELSE [fatal |-> TRUE, diag |-> Fatal("dep-node label not recognized", id)]

\* A faulty resolve_labels, against which C5 is tested: a piece that is no
\* dep-node label is skipped.
RECURSIVE resolve_skipping(_, _, _)
resolve_skipping(pieces, out, id) ==
    IF pieces = <<>> THEN [fatal |-> FALSE, value |-> out]
    ELSE LET label == trim(Head(pieces))
         IN  IF has_label_string(label)
             THEN IF label \in out
                  THEN [fatal |-> TRUE, diag |-> Fatal("dep-node label is repeated", id)]
                  ELSE resolve_skipping(Tail(pieces), out \cup {label}, id)
             ELSE resolve_skipping(Tail(pieces), out, id)
resolve_labels_skipping(value, id) == resolve_skipping(split(value), {}, id)

resolve_labels(value, id) == resolve_from(split(value), {}, id)

\* DirtyCleanVisitor::labels: the labels of the directive's `label` item.
labels(attr, id) ==
    IF attr.label # Absent
    THEN LET value == expect_associated_value(attr.label, id)
         IN  IF value.fatal THEN value ELSE resolve_labels(value.value, id)
    ELSE [fatal |-> TRUE, diag |-> Fatal("no label found", id)]

\* The orders a HashSet<String> of labels may be iterated in: the hasher is
\* seeded at random, so each set has an order of its own.
Orders ==
    { o \in [1..Cardinality(LabelStrings) -> LabelStrings] :
        \A i, j \in 1..Cardinality(LabelStrings) : o[i] = o[j] => i = j }

\* DepNode::from_label_string(label, def_path_hash).
DepNode(label, def) == [kind |-> label[1], def |-> def]
DepNodes == { DepNode(l, d) : l \in LabelStrings, d \in Defs }

\* A faulty dep_nodes, against which C6 is tested: only the first label of the
\* iteration gets a dep-node.
dep_nodes_first(labelset, def, order) ==
    LET InSet(l) == l \in labelset
        its == SelectSeq(order, InSet)
    IN  IF its = <<>> THEN <<>> ELSE <<DepNode(its[1], def)>>

\* dep_nodes: the dep-nodes of the labels, in the set's iteration order.
dep_nodes(labelset, def, order) ==
    LET InSet(l) == l \in labelset
        its == SelectSeq(order, InSet)
    IN  [i \in 1..Len(its) |-> DepNode(its[i], def)]

\* ----------------------------------------------------------- state
VARIABLES
    pass,                     \* the entry point the behaviour invokes
    rustc_attrs,              \* tcx.sess.features.rustc_attrs
    query_dep_graph,          \* tcx.sess.opts.debugging_opts.query_dep_graph
    config,                   \* tcx.sess.parse_sess.config
    krate,                    \* tcx.hir.krate(): its directives
    cur_fingerprints,         \* dep_graph.fingerprint_of
    prev_fingerprints,        \* dep_graph.prev_fingerprint_of
    prev_metadata_hashes,
    current_metadata_hashes,
    pc,                       \* where the invocation is
    pos,                      \* the next definition of the traversal
    checked_attrs,            \* the visitor's checked_attrs
    found_attrs,              \* FindAllAttrs::found_attrs
    diags,                    \* what the session's handler was given
    built,                    \* bookkeeping: the dep-nodes dep_nodes returned
    asserted,                 \* bookkeeping: the calls of assert_*
    run,                      \* the number of this invocation
    earlier                   \* the outcome of the invocations before it

inputs == <<pass, rustc_attrs, query_dep_graph, config, krate, cur_fingerprints,
            prev_fingerprints, prev_metadata_hashes, current_metadata_hashes>>
vars == <<inputs, pc, pos, checked_attrs, found_attrs, diags, built, asserted,
          run, earlier>>

fingerprint_of(dep_node) == cur_fingerprints[dep_node]
prev_fingerprint_of(dep_node) == prev_fingerprints[dep_node]

\* -------------------------------------------------- DirtyCleanVisitor
\* assert_dirty: the diagnostics it emits.
assert_dirty(item_span, dep_node, id) ==
    IF Some(fingerprint_of(dep_node)) = prev_fingerprint_of(dep_node)
    THEN <<Error("should be dirty but is not", item_span, dep_node, id)>>
    ELSE <<>>

\* A faulty assert_clean, against which C1 is tested: a dep-node without
\* previous fingerprint passes.
assert_clean_absent_passes(item_span, dep_node, id) ==
    IF /\ prev_fingerprint_of(dep_node) # None
       /\ Some(fingerprint_of(dep_node)) # prev_fingerprint_of(dep_node)
    THEN <<Error("should be clean but is not", item_span, dep_node, id)>>
    ELSE <<>>

\* assert_clean: the diagnostics it emits.
assert_clean(item_span, dep_node, id) ==
    IF Some(fingerprint_of(dep_node)) # prev_fingerprint_of(dep_node)
    THEN <<Error("should be clean but is not", item_span, dep_node, id)>>
    ELSE <<>>

\* A faulty Abort, against which C9 is tested: the fatal diagnostic is
\* emitted and the session goes on.
Abort_and_go_on(v, diag) == [v EXCEPT !.diags = Append(@, diag)]

\* What a visitor has done so far: its checked_attrs, the diagnostics, the
\* bookkeeping, and whether a fatal diagnostic ended the session.
Visitor(checked, ds, b, a, fatal) ==
    [checked |-> checked, diags |-> ds, built |-> b, asserted |-> a, fatal |-> fatal]

\* tcx.sess.span_fatal: the diagnostic is emitted and the session ends.
Abort(v, diag) == [v EXCEPT !.diags = Append(@, diag), !.fatal = TRUE]

\* The loop over the dep-nodes of one directive.
RECURSIVE assert_each(_, _, _, _, _)
assert_each(v, dirty, item_span, nodes, id) ==
    IF nodes = <<>> THEN v
    ELSE LET dep_node == Head(nodes)
             emitted == IF dirty THEN assert_dirty(item_span, dep_node, id)
                        ELSE assert_clean(item_span, dep_node, id)
             call == [attr |-> id, subject |-> dep_node]
         IN  assert_each([v EXCEPT !.diags = @ \o emitted,
                                   !.asserted = Append(@, call)],
                         dirty, item_span, Tail(nodes), id)

\* The body of check_item's loop for a #[rustc_dirty] or #[rustc_clean].
check_fingerprint_attr(v, def, id, order) ==
    LET attr == krate[id]
        gate == check_config(config, attr, id)
    IN  IF gate.fatal THEN Abort(v, gate.diag)
        ELSE IF gate.value
        THEN LET v1 == [v EXCEPT !.checked = @ \cup {id}]
                 ls == labels(attr, id)
             IN  IF ls.fatal THEN Abort(v1, ls.diag)
                 ELSE LET nodes == dep_nodes(ls.value, def, order)
                          made == [i \in 1..Len(nodes) |->
                                       [attr |-> id, subject |-> nodes[i]]]
                      IN  assert_each([v1 EXCEPT !.built = @ \o made],
                                      attr.name = ATTR_DIRTY, ItemSpan(def), nodes, id)
        ELSE v

RECURSIVE check_item_from(_, _, _, _)
check_item_from(v, def, ids, orders) ==
    IF ids = <<>> \/ v.fatal THEN v
    ELSE LET id == Head(ids)
             v1 == IF krate[id].name \in {ATTR_DIRTY, ATTR_CLEAN}
                   THEN check_fingerprint_attr(v, def, id, orders[id])
                   ELSE v
         IN  check_item_from(v1, def, Tail(ids), orders)

\* DirtyCleanVisitor::check_item.  orders: the iteration order of each
\* directive's label set.
check_item(v, def, orders) ==
    check_item_from(v, def, get_attrs(krate, def), orders)

\* ------------------------------------------ DirtyCleanMetadataVisitor
\* tcx.item_path_str(def_id), as the subject of a diagnostic.
MetadataOf(def) == [kind |-> "Metadata", def |-> def]

\* A faulty assert_state, against which C2 is tested: a definition without
\* previous hash counts as dirty.
assert_state_absent_is_dirty(should_be_clean, def, span, id) ==
    LET hashes_are_equal ==
            prev_metadata_hashes[def] = Some(current_metadata_hashes[def])
    IN  (IF should_be_clean /\ ~hashes_are_equal
         THEN <<Error("is dirty, but should be clean", span, MetadataOf(def), id)>>
         ELSE <<>>)
        \o
        (IF ~should_be_clean /\ hashes_are_equal
         THEN <<Error("is clean, but should be dirty", span, MetadataOf(def), id)>>
         ELSE <<>>)

\* assert_state: the diagnostics it emits.
assert_state(should_be_clean, def, span, id) ==
    IF prev_metadata_hashes[def] # None
    THEN LET prev_hash == prev_metadata_hashes[def][1]
             hashes_are_equal == prev_hash = current_metadata_hashes[def]
             should_be_dirty == ~should_be_clean
         IN  (IF should_be_clean /\ ~hashes_are_equal
              THEN <<Error("is dirty, but should be clean", span, MetadataOf(def), id)>>
              ELSE <<>>)
             \o
             (IF should_be_dirty /\ hashes_are_equal
              THEN <<Error("is clean, but should be dirty", span, MetadataOf(def), id)>>
              ELSE <<>>)
    ELSE <<Error("Could not find previous metadata hash", span, MetadataOf(def), id)>>

\* A faulty check_metadata_attr, against which C10 is tested: the result of
\* checked_attrs.insert is not looked at.
check_metadata_attr_every_visit(v, def, id) ==
    LET attr == krate[id]
        gate == check_config(config, attr, id)
    IN  IF gate.fatal THEN [v EXCEPT !.diags = Append(@, gate.diag), !.fatal = TRUE]
        ELSE IF gate.value
        THEN [v EXCEPT
                !.checked = @ \cup {id},
                !.diags = @ \o assert_state(attr.name = ATTR_CLEAN_METADATA, def,
                                            ItemSpan(def), id),
                !.asserted = Append(@, [attr |-> id, subject |-> MetadataOf(def)])]
        ELSE v

\* The body of check_item's loop for a #[rustc_metadata_dirty] or
\* #[rustc_metadata_clean].
check_metadata_attr(v, def, id) ==
    LET attr == krate[id]
        gate == check_config(config, attr, id)
    IN  IF gate.fatal THEN Abort(v, gate.diag)
        ELSE IF gate.value /\ id \notin v.checked
        THEN [v EXCEPT
                !.checked = @ \cup {id},
                !.diags = @ \o assert_state(attr.name = ATTR_CLEAN_METADATA, def,
                                            ItemSpan(def), id),
                !.asserted = Append(@, [attr |-> id, subject |-> MetadataOf(def)])]
        ELSE v

RECURSIVE metadata_check_item_from(_, _, _)
metadata_check_item_from(v, def, ids) ==
    IF ids = <<>> \/ v.fatal THEN v
    ELSE LET id == Head(ids)
             v1 == IF krate[id].name \in {ATTR_DIRTY_METADATA, ATTR_CLEAN_METADATA}
                   THEN check_metadata_attr(v, def, id)
                   ELSE v
         IN  metadata_check_item_from(v1, def, Tail(ids))

\* DirtyCleanMetadataVisitor::check_item.
metadata_check_item(v, def) ==
    metadata_check_item_from(v, def, get_attrs(krate, def))

\* ------------------------------------------------------ FindAllAttrs
\* The attr_names each entry point gives to FindAllAttrs.
attr_names(p) ==
    IF p = "annotations" THEN <<ATTR_DIRTY, ATTR_CLEAN>>
    ELSE <<ATTR_DIRTY_METADATA, ATTR_CLEAN_METADATA>>

\* is_active_attr: whether the attribute has one of the names and its cfg is
\* in the configuration.
RECURSIVE is_active_attr_from(_, _, _)
is_active_attr_from(names, attr, id) ==
    IF names = <<>> THEN [fatal |-> FALSE, value |-> FALSE]
    ELSE IF attr.name = Head(names)
         THEN LET gate == check_config(config, attr, id)
              IN  IF gate.fatal \/ gate.value THEN gate
                  ELSE is_active_attr_from(Tail(names), attr, id)
         ELSE is_active_attr_from(Tail(names), attr, id)

is_active_attr(names, attr, id) == is_active_attr_from(names, attr, id)

\* intravisit::walk_crate with FindAllAttrs: visit_attribute on each attribute
\* of the crate.  f: found_attrs and the fatal diagnostic, if any.
RECURSIVE visit_attributes(_, _, _)
visit_attributes(f, names, ids) ==
    IF ids = <<>> \/ f.fatal THEN f
    ELSE LET id == Head(ids)
             active == is_active_attr(names, krate[id], id)
         IN  IF active.fatal
             THEN [f EXCEPT !.fatal = TRUE, !.diag = active.diag]
             ELSE visit_attributes(
                      IF active.value THEN [f EXCEPT !.found = Append(@, id)] ELSE f,
                      names, Tail(ids))

\* A faulty report_unchecked_attrs, against which C4 is tested: the test of
\* checked_attrs is inverted.
RECURSIVE report_checked_attrs(_, _)
report_checked_attrs(found, checked) ==
    IF found = <<>> THEN <<>>
    ELSE (IF Head(found) \in checked
          THEN <<Error("found unchecked #[rustc_dirty]/#[rustc_clean] attribute",
                       AttrSpan(Head(found)), NoSubject, Head(found))>>
          ELSE <<>>)
         \o report_checked_attrs(Tail(found), checked)

\* report_unchecked_attrs: the diagnostics it emits.
RECURSIVE report_unchecked_attrs(_, _)
report_unchecked_attrs(found, checked) ==
    IF found = <<>> THEN <<>>
    ELSE (IF Head(found) \notin checked
          THEN <<Error("found unchecked #[rustc_dirty]/#[rustc_clean] attribute",
                       AttrSpan(Head(found)), NoSubject, Head(found))>>
          ELSE <<>>)
         \o report_unchecked_attrs(Tail(found), checked)

\* ------------------------------------------------------------ Init
IsString(x) == x \notin {Absent, NoValue}
Tokens(value) == { value[i] : i \in 1..Len(value) }

\* The current session's snapshots: a fingerprint for each kind of result.
\* Only its equality with the previous one is ever read.
CurrentOf(kind) == IF kind = "Hir" THEN "H1" ELSE "H2"

\* The dep-nodes and the definitions whose fingerprints an invocation can
\* read.  The previous session's snapshots are varied on those (absent, the
\* current fingerprint, another one) and absent elsewhere.
ReadNodes(p, k) ==
    { n \in DepNodes :
        /\ p = "annotations"
        /\ \E i \in 1..Len(k) :
              /\ k[i].name \in FingerprintNames
              /\ k[i].owner = n.def
              /\ n.def \in Reached(p)
              /\ k[i].cfg \in ActiveConfig
              /\ IsString(k[i].label)
              /\ n.kind \in Tokens(k[i].label) }

ReadDefs(p, k) ==
    { d \in Defs :
        /\ p = "metadata"
        /\ \E i \in 1..Len(k) :
              /\ k[i].name \in MetadataNames
              /\ k[i].owner = d
              /\ d \in Reached(p)
              /\ k[i].cfg \in ActiveConfig }

Init ==
    /\ pass \in Passes
    /\ rustc_attrs \in BOOLEAN
    /\ query_dep_graph \in BOOLEAN
    /\ config = ActiveConfig
    /\ krate \in Crates(pass)
    /\ cur_fingerprints = [n \in DepNodes |-> CurrentOf(n.kind)]
    /\ \E prev \in [ReadNodes(pass, krate) -> OptionFingerprints] :
          prev_fingerprints =
              [n \in DepNodes |-> IF n \in DOMAIN prev THEN prev[n] ELSE None]
    /\ current_metadata_hashes = [d \in Defs |-> CurrentOf("Metadata")]
    /\ \E prev \in [ReadDefs(pass, krate) -> OptionFingerprints] :
          prev_metadata_hashes =
              [d \in Defs |-> IF d \in DOMAIN prev THEN prev[d] ELSE None]
    /\ pc = "idle"
    /\ pos = 1
    /\ checked_attrs = {}
    /\ found_attrs = <<>>
    /\ diags = <<>>
    /\ built = <<>>
    /\ asserted = <<>>
    /\ run = 1
    /\ earlier = <<>>

\* --------------------------------------------------------- actions
TheVisitor == Visitor(checked_attrs, diags, built, asserted, FALSE)

Install(v) ==
    /\ checked_attrs' = v.checked
    /\ diags' = v.diags
    /\ built' = v.built
    /\ asserted' = v.asserted

\* A faulty check_dirty_clean_annotations, against which C8 is tested: the
\* flag is not looked at.
check_dirty_clean_annotations_ungated ==
    /\ pc = "idle"
    /\ pass = "annotations"
    /\ pc' = "visiting"
    /\ UNCHANGED <<inputs, pos, checked_attrs, found_attrs, diags, built,
                   asserted, run, earlier>>

\* check_dirty_clean_annotations, up to the traversal.
check_dirty_clean_annotations ==
    /\ pc = "idle"
    /\ pass = "annotations"
    /\ pc' = IF ~rustc_attrs THEN "returned" ELSE "visiting"
    /\ UNCHANGED <<inputs, pos, checked_attrs, found_attrs, diags, built,
                   asserted, run, earlier>>

\* check_dirty_clean_metadata, up to the traversal.
check_dirty_clean_metadata ==
    /\ pc = "idle"
    /\ pass = "metadata"
    /\ pc' = IF ~query_dep_graph THEN "returned" ELSE "visiting"
    /\ UNCHANGED <<inputs, pos, checked_attrs, found_attrs, diags, built,
                   asserted, run, earlier>>

\* DirtyCleanVisitor's visit_item, visit_trait_item and visit_impl_item.
visit_item_like ==
    /\ pc = "visiting"
    /\ pass = "annotations"
    /\ pos <= Len(ItemLikes)
    /\ \E orders \in [1..Len(krate) -> Orders] :
          LET v == check_item(TheVisitor, ItemLikes[pos], orders)
          IN  /\ Install(v)
              /\ pc' = IF v.fatal THEN "aborted" ELSE "visiting"
    /\ pos' = pos + 1
    /\ UNCHANGED <<inputs, found_attrs, run, earlier>>

\* DirtyCleanMetadataVisitor's visit_item, visit_variant_data,
\* visit_struct_field, visit_impl_item, ...
metadata_visit ==
    /\ pc = "visiting"
    /\ pass = "metadata"
    /\ pos <= Len(MetadataVisits)
    /\ LET v == metadata_check_item(TheVisitor, MetadataVisits[pos])
       IN  /\ Install(v)
           /\ pc' = IF v.fatal THEN "aborted" ELSE "visiting"
    /\ pos' = pos + 1
    /\ UNCHANGED <<inputs, found_attrs, run, earlier>>

\* intravisit::walk_crate(&mut all_attrs, krate).
find_all_attrs ==
    /\ pc = "visiting"
    /\ pos > Len(VisitsOf(pass))
    /\ LET f == visit_attributes([found |-> <<>>, fatal |-> FALSE, diag |-> NoSubject],
                                 attr_names(pass), [i \in 1..Len(krate) |-> i])
       IN  /\ found_attrs' = f.found
           /\ diags' = IF f.fatal THEN Append(diags, f.diag) ELSE diags
           /\ pc' = IF f.fatal THEN "aborted" ELSE "found"
    /\ UNCHANGED <<inputs, pos, checked_attrs, built, asserted, run, earlier>>

\* all_attrs.report_unchecked_attrs(&dirty_clean_visitor.checked_attrs), and
\* the return.
report ==
    /\ pc = "found"
    /\ diags' = diags \o report_unchecked_attrs(found_attrs, checked_attrs)
    /\ pc' = "returned"
    /\ UNCHANGED <<inputs, pos, checked_attrs, found_attrs, built, asserted,
                   run, earlier>>

\* The same session is compiled again: the entry point is invoked anew on the
\* same crate, configuration and snapshots.
again ==
    /\ pc \in {"returned", "aborted"}
    /\ run < MaxRuns
    /\ earlier' = Append(earlier, [pc |-> pc, diags |-> diags])
    /\ run' = run + 1
    /\ pc' = "idle"
    /\ pos' = 1
    /\ checked_attrs' = {}
    /\ found_attrs' = <<>>
    /\ diags' = <<>>
    /\ built' = <<>>
    /\ asserted' = <<>>
    /\ UNCHANGED inputs

Next ==
    \/ check_dirty_clean_annotations
    \/ check_dirty_clean_metadata
    \/ visit_item_like
    \/ metadata_visit
    \/ find_all_attrs
    \/ report
    \/ again

Spec == Init /\ [][Next]_vars

\* ===================================================== properties
Finished == pc \in {"returned", "aborted"}
Capability == IF pass = "annotations" THEN rustc_attrs ELSE query_dep_graph
AttrIds == 1..Len(krate)
OfPass(i) == krate[i].name \in NamesOf(pass)
GateAccepts(i) == IsString(krate[i].cfg) /\ krate[i].cfg \in config
GateRejects(i) == IsString(krate[i].cfg) /\ krate[i].cfg \notin config
OnReached(i) == krate[i].owner \in Reached(pass)

Unchecked == "found unchecked #[rustc_dirty]/#[rustc_clean] attribute"
IsAssertion(d) == d.sev = "error" /\ d.msg # Unchecked
IsUnchecked(d) == d.sev = "error" /\ d.msg = Unchecked
IsFatal(d) == d.sev = "fatal"

\* The assertion diagnostics of directive i about subject x, and all of them.
AssertionsAbout(i, x) ==
    { k \in 1..Len(diags) :
        IsAssertion(diags[k]) /\ diags[k].attr = i /\ diags[k].subject = x }
AssertionsOf(i) ==
    { k \in 1..Len(diags) : IsAssertion(diags[k]) /\ diags[k].attr = i }
UncheckedOf(i) ==
    { k \in 1..Len(diags) : IsUnchecked(diags[k]) /\ diags[k].attr = i }
CallsOf(i) == { j \in 1..Len(asserted) : asserted[j].attr = i }

\* The previous fingerprint of a dep-node is there and is the current one.
Unchanged(n) ==
    /\ prev_fingerprints[n] # None
    /\ prev_fingerprints[n][1] = cur_fingerprints[n]

\* C1: in the fingerprint pass, each call of assert_dirty leaves exactly one
\* "should be dirty" error when the dep-node's previous fingerprint is present
\* and equal to the current one and none otherwise, and each call of
\* assert_clean leaves exactly one "should be clean" error when the previous
\* fingerprint is absent or differs, and none otherwise.
C1_AssertDirtyClean ==
    pass = "annotations" =>
        \A j \in 1..Len(asserted) :
            LET i == asserted[j].attr
                n == asserted[j].subject
                about == AssertionsAbout(i, n)
            IN  /\ GateAccepts(i)
                /\ krate[i].name = ATTR_DIRTY =>
                      /\ Cardinality(about) = IF Unchanged(n) THEN 1 ELSE 0
                      /\ \A k \in about : diags[k].msg = "should be dirty but is not"
                /\ krate[i].name = ATTR_CLEAN =>
                      /\ Cardinality(about) = IF Unchanged(n) THEN 0 ELSE 1
                      /\ \A k \in about : diags[k].msg = "should be clean but is not"

C1_Witness ==
    /\ pass = "annotations"
    /\ pc = "returned"
    /\ \E j \in 1..Len(asserted) :
          /\ krate[asserted[j].attr].name = ATTR_DIRTY
          /\ prev_fingerprints[asserted[j].subject] = None
          /\ AssertionsAbout(asserted[j].attr, asserted[j].subject) = {}
    /\ \E j \in 1..Len(asserted) :
          /\ krate[asserted[j].attr].name = ATTR_CLEAN
          /\ prev_fingerprints[asserted[j].subject] = None
          /\ AssertionsAbout(asserted[j].attr, asserted[j].subject) # {}

\* C2: in the metadata pass, the one call of assert_state for a directive
\* leaves exactly one error when the definition has no previous hash; when it
\* has one, exactly one error if the hashes are equal and dirty was requested
\* or differ and clean was requested, and none otherwise.
C2_AssertState ==
    pass = "metadata" =>
        \A j \in 1..Len(asserted) :
            LET i == asserted[j].attr
                def == asserted[j].subject.def
                clean == krate[i].name = ATTR_CLEAN_METADATA
                prev == prev_metadata_hashes[def]
                equal == prev = Some(current_metadata_hashes[def])
                msg == IF prev = None THEN "Could not find previous metadata hash"
                       ELSE IF clean THEN "is dirty, but should be clean"
                       ELSE "is clean, but should be dirty"
                wanted == IF prev = None \/ (equal /\ ~clean) \/ (~equal /\ clean)
                          THEN 1 ELSE 0
            IN  /\ GateAccepts(i)
                /\ krate[i].name \in MetadataNames
                /\ Cardinality(AssertionsOf(i)) = wanted
                /\ \A k \in AssertionsOf(i) :
                      diags[k].msg = msg /\ diags[k].span = ItemSpan(def)

C2_Witness ==
    /\ pass = "metadata"
    /\ pc = "returned"
    /\ \E j \in 1..Len(asserted) :
          /\ krate[asserted[j].attr].name = ATTR_DIRTY_METADATA
          /\ prev_metadata_hashes[asserted[j].subject.def] = None
          /\ Cardinality(AssertionsOf(asserted[j].attr)) = 1
    /\ \E j \in 1..Len(asserted) :
          /\ krate[asserted[j].attr].name = ATTR_CLEAN_METADATA
          /\ prev_metadata_hashes[asserted[j].subject.def] # None
          /\ AssertionsOf(asserted[j].attr) = {}

\* C3: a directive whose cfg names a flag that is not in the configuration is
\* never put in checked_attrs or found_attrs, has no dep-node built and no
\* assertion run, and has no diagnostic of any kind, in either pass and on any
\* declaration.
C3_GateRejectsInert ==
    \A i \in AttrIds :
        GateRejects(i) =>
            /\ i \notin checked_attrs
            /\ \A j \in 1..Len(found_attrs) : found_attrs[j] # i
            /\ \A j \in 1..Len(built) : built[j].attr # i
            /\ CallsOf(i) = {}
            /\ \A k \in 1..Len(diags) : diags[k].attr # i

C3_Witness ==
    /\ pc = "returned"
    /\ Capability
    /\ \E i \in AttrIds :
          /\ GateRejects(i) /\ OfPass(i) /\ OnReached(i)
          /\ krate[i].label = <<"Hir", ",", "Bogus">>
    /\ \E i \in AttrIds :
          GateRejects(i) /\ OfPass(i) /\ ~OnReached(i)

\* What the code is asked to do with directive i.
Consulted(i) == OfPass(i) /\ GateAccepts(i) /\ OnReached(i)
Escaped(i) == OfPass(i) /\ GateAccepts(i) /\ ~OnReached(i)

\* C4 as stated: whenever an invocation that does its traversal has ended, a
\* directive of the pass's kinds whose gate accepts and whose declaration the
\* traversal does not reach has exactly one "found unchecked" error and no
\* assertion diagnostic.
C4_EveryRunFlags ==
    (Finished /\ Capability) =>
        \A i \in AttrIds :
            Escaped(i) =>
                /\ Cardinality(UncheckedOf(i)) = 1
                /\ AssertionsOf(i) = {}

\* C4, amended: the same of an invocation that returns, that is, that no
\* fatal diagnostic ended; the error is at the directive's span.
C4_ReturnedRunFlags ==
    (pc = "returned" /\ Capability) =>
        \A i \in AttrIds :
            Escaped(i) =>
                /\ Cardinality(UncheckedOf(i)) = 1
                /\ \A k \in UncheckedOf(i) : diags[k].span = AttrSpan(i)
                /\ AssertionsOf(i) = {}
                /\ CallsOf(i) = {}

C4_Witness ==
    /\ pc = "returned"
    /\ Capability
    /\ \E i \in AttrIds : Escaped(i) /\ Cardinality(UncheckedOf(i)) = 1
    /\ \E i \in AttrIds : Consulted(i) /\ UncheckedOf(i) = {}

\* The pieces of a directive's label string, trimmed.
Pieces(i) ==
    LET ps == split(krate[i].label) IN [k \in 1..Len(ps) |-> trim(ps[k])]
HasUnrecognized(i) ==
    /\ krate[i].name \in FingerprintNames
    /\ IsString(krate[i].label)
    /\ \E k \in 1..Len(Pieces(i)) : Pieces(i)[k] \notin LabelStrings
BuiltOf(i) == { j \in 1..Len(built) : built[j].attr = i }

\* C5 as stated: whenever the crate holds a fingerprint directive with an
\* unrecognized label, an invocation of the fingerprint pass that has ended
\* has aborted, and no dep-node was built from that directive.
C5_AnyUnrecognizedAborts ==
    (pass = "annotations" /\ Capability) =>
        \A i \in AttrIds :
            HasUnrecognized(i) =>
                /\ Finished => pc = "aborted"
                /\ BuiltOf(i) = {}

\* C5, amended: the same of a directive whose gate accepts and whose
\* declaration the traversal reaches.
C5_ConsultedUnrecognizedAborts ==
    (pass = "annotations" /\ Capability) =>
        \A i \in AttrIds :
            (HasUnrecognized(i) /\ Consulted(i)) =>
                /\ Finished => pc = "aborted"
                /\ BuiltOf(i) = {}
                /\ CallsOf(i) = {}

C5_Witness ==
    /\ pass = "annotations"
    /\ pc = "aborted"
    /\ \E i \in AttrIds :
          /\ HasUnrecognized(i) /\ Consulted(i)
          /\ diags[Len(diags)] = Fatal("dep-node label not recognized", i)
          /\ i \in checked_attrs

\* A fingerprint directive whose label string is a list of distinct
\* recognized labels, and those labels.
LabelSet(i) == { Pieces(i)[k] : k \in 1..Len(Pieces(i)) }
WellLabelled(i) ==
    /\ krate[i].name \in FingerprintNames
    /\ IsString(krate[i].label)
    /\ LabelSet(i) \subseteq LabelStrings
    /\ Cardinality(LabelSet(i)) = Len(Pieces(i))
FailsOn(i, n) ==
    IF krate[i].name = ATTR_DIRTY THEN Unchanged(n) ELSE ~Unchanged(n)
FailingLabels(i) ==
    { l \in LabelSet(i) : FailsOn(i, DepNode(l, krate[i].owner)) }

\* C6: a fingerprint directive in checked_attrs that names N distinct
\* recognized labels has had exactly N assertions run, one on the dep-node of
\* each label and the directive's declaration; it has one error for each label
\* whose assertion fails and none for the others.
C6_OneAssertionPerLabel ==
    pass = "annotations" =>
        \A i \in checked_attrs :
            WellLabelled(i) =>
                /\ Cardinality(CallsOf(i)) = Len(Pieces(i))
                /\ { asserted[j].subject : j \in CallsOf(i) }
                      = { DepNode(l, krate[i].owner) : l \in LabelSet(i) }
                /\ \A l \in LabelSet(i) :
                      Cardinality(AssertionsAbout(i, DepNode(l, krate[i].owner)))
                          = IF l \in FailingLabels(i) THEN 1 ELSE 0
                /\ Cardinality(AssertionsOf(i)) = Cardinality(FailingLabels(i))

C6_Witness ==
    /\ pass = "annotations"
    /\ \E i \in checked_attrs :
          /\ krate[i].name = ATTR_DIRTY
          /\ WellLabelled(i)
          /\ Len(Pieces(i)) = 2
          /\ FailingLabels(i) = {<<"Hir">>}
          /\ Cardinality(AssertionsOf(i)) = 1
          /\ \A k \in AssertionsOf(i) : diags[k].subject.kind = "Hir"

\* C7 as stated: an invocation that has ended has the outcome and the
\* diagnostics, in order, of every earlier invocation on the same inputs.
C7_SameDiagnosticsInOrder ==
    Finished =>
        \A r \in 1..Len(earlier) :
            earlier[r].pc = pc /\ earlier[r].diags = diags

\* What does hold of two invocations: the same outcome and the same
\* diagnostics, each as many times, in some order.
Times(ds, d) == Cardinality({ k \in 1..Len(ds) : ds[k] = d })
C7_SameDiagnosticsInSomeOrder ==
    Finished =>
        \A r \in 1..Len(earlier) :
            /\ earlier[r].pc = pc
            /\ Len(earlier[r].diags) = Len(diags)
            /\ \A k \in 1..Len(diags) :
                  Times(earlier[r].diags, diags[k]) = Times(diags, diags[k])

\* C8: an invocation whose capability flag is off has returned or not begun,
\* and has consulted nothing and emitted nothing, whatever the crate, the
\* snapshots and the other flag; an invocation whose flag is on returns only
\* after its traversal, whatever the other flag.
C8_InertWithoutFlag ==
    /\ ~Capability =>
          /\ pc \in {"idle", "returned"}
          /\ diags = <<>>
          /\ checked_attrs = {}
          /\ found_attrs = <<>>
          /\ built = <<>>
          /\ asserted = <<>>
          /\ pos = 1
    /\ (Capability /\ pc = "returned") => pos = Len(VisitsOf(pass)) + 1

C8_Witness ==
    /\ pass = "annotations"
    /\ ~rustc_attrs
    /\ query_dep_graph
    /\ pc = "returned"
    /\ \E i \in AttrIds : Consulted(i) /\ HasUnrecognized(i)
    /\ \E i \in AttrIds : Escaped(i)

\* The AttrIds in the order the traversal of the pass comes to them, and the
\* place where it first comes to a directive (0: never).
RECURSIVE VisitOrderFrom(_)
VisitOrderFrom(defs) ==
    IF defs = <<>> THEN <<>>
    ELSE get_attrs(krate, Head(defs)) \o VisitOrderFrom(Tail(defs))
VisitOrder == VisitOrderFrom(VisitsOf(pass))
FirstVisit(i) ==
    IF \E k \in 1..Len(VisitOrder) : VisitOrder[k] = i
    THEN CHOOSE k \in 1..Len(VisitOrder) :
             VisitOrder[k] = i /\ \A h \in 1..k - 1 : VisitOrder[h] # i
    ELSE 0

\* The errors the assertions of a consulted directive are to leave.
MetadataFails(i) ==
    LET prev == prev_metadata_hashes[krate[i].owner]
        equal == prev = Some(current_metadata_hashes[krate[i].owner])
    IN  \/ prev = None
        \/ krate[i].name = ATTR_DIRTY_METADATA /\ equal
        \/ krate[i].name = ATTR_CLEAN_METADATA /\ ~equal
ExpectedFailures(i) ==
    IF pass = "annotations" THEN Cardinality(FailingLabels(i))
    ELSE IF MetadataFails(i) THEN 1 ELSE 0

\* A directive with an argument that is fatal when read.
Malformed(i) ==
    \/ ~IsString(krate[i].cfg)
    \/ krate[i].name \in FingerprintNames /\ ~WellLabelled(i)

\* C9: (a) an invocation that returns has, whatever errors it emitted on the
\* way, consulted every directive it was to consult, left each failing
\* assertion's error and each escaped directive's "found unchecked" error and
\* nothing else; and an invocation on a crate without malformed directive
\* that has ended has returned.  (b) A fatal diagnostic is the last diagnostic
\* of its invocation, which is then aborted: no "found unchecked" error was
\* reported, and no directive that the traversal comes to after the fatal one
\* was consulted or asserted.
C9_ErrorsGoOnFatalStops ==
    /\ (pc = "returned" /\ Capability) =>
          /\ \A i \in AttrIds :
                /\ Consulted(i) =>
                      /\ i \in checked_attrs
                      /\ Cardinality(AssertionsOf(i)) = ExpectedFailures(i)
                /\ Escaped(i) => Cardinality(UncheckedOf(i)) = 1
          /\ \A k \in 1..Len(diags) :
                \/ IsAssertion(diags[k]) /\ Consulted(diags[k].attr)
                \/ IsUnchecked(diags[k]) /\ Escaped(diags[k].attr)
    /\ (Finished /\ \A i \in AttrIds : ~Malformed(i)) => pc = "returned"
    /\ \A k \in 1..Len(diags) :
          IsFatal(diags[k]) => k = Len(diags) /\ pc = "aborted"
    /\ pc = "aborted" =>
          /\ diags # <<>>
          /\ IsFatal(diags[Len(diags)])
          /\ \A k \in 1..Len(diags) : ~IsUnchecked(diags[k])
          /\ LET f == diags[Len(diags)].attr
             IN  FirstVisit(f) > 0 =>
                    /\ \A i \in checked_attrs : FirstVisit(i) <= FirstVisit(f)
                    /\ \A j \in 1..Len(asserted) :
                          FirstVisit(asserted[j].attr) < FirstVisit(f)
                    /\ found_attrs = <<>>

C9_Witness ==
    /\ pc = "returned"
    /\ Len(diags) = 2
    /\ IsAssertion(diags[1])
    /\ IsUnchecked(diags[2])
    /\ diags[1].attr # diags[2].attr

\* C10: checked_attrs never holds a directive that the traversal did not come
\* to with an accepted gate; in an invocation that returns, it holds every
\* directive of the pass's kinds whose gate accepts and whose declaration the
\* traversal reaches, each of them had its assertions run, no assertion twice
\* (a metadata directive exactly one, also when the traversal comes to it
\* twice), and none of them is reported unchecked, whether or not an assertion
\* failed.
C10_ConsultedOnce ==
    /\ \A i \in checked_attrs : Consulted(i) /\ Capability
    /\ (pc = "returned" /\ Capability) =>
          /\ checked_attrs = { i \in AttrIds : Consulted(i) }
          /\ \A i \in checked_attrs :
                /\ CallsOf(i) # {}
                /\ \A j1, j2 \in CallsOf(i) :
                      asserted[j1].subject = asserted[j2].subject => j1 = j2
                /\ pass = "metadata" => Cardinality(CallsOf(i)) = 1
                /\ UncheckedOf(i) = {}

C10_Witness ==
    /\ pass = "metadata"
    /\ pc = "returned"
    /\ \E i \in checked_attrs :
          /\ krate[i].owner = "item"
          /\ Cardinality({ k \in 1..Len(VisitOrder) : VisitOrder[k] = i }) = 2
          /\ Cardinality(CallsOf(i)) = 1
          /\ Cardinality(AssertionsOf(i)) = 1
    /\ \E i \in checked_attrs : AssertionsOf(i) = {}

====
